---------------------------- MODULE Spec2Model ----------------------------
(***************************************************************************)
(* ANODE: weight computation from job-history records                       *)
(* (parse_jobhistory_and_compute_weights.py) and the apply agent that       *)
(* publishes the weights and upserts hdfs-site.xml properties               *)
(* (anode_agent_apply.py).                                                  *)
(*                                                                          *)
(* Five specifications share the module:                                    *)
(*   SpecCompute       compute_ndt_and_Ci in exact arithmetic               *)
(*   SpecComputeFloat  compute_ndt_and_Ci in exact and in rounded arithmetic*)
(*   SpecParse         parse_history_xml                                    *)
(*   SpecUpsert        repeated update_hdfs_site_property calls on a store  *)
(*   SpecApply         one run of anode_agent_apply.main                    *)
(***************************************************************************)
EXTENDS Integers, Sequences, FiniteSets, TLC

VARIABLES
    \* compute_ndt_and_Ci
    arith,      \* "exact": rationals; "rounded": binary floating point of SigBits bits
    entries,    \* the list of (node, start, finish, hdfs_bytes) given to compute_ndt_and_Ci
    phase,      \* "input", "computed" (the call returned), "reordered" (called again on a permutation)
    node_C,     \* returned capacity mapping  node -> Ci
    node_P,     \* returned weight mapping    node -> Pi
    \* parse_history_xml
    content,    \* the taskAttempt and map elements of the document, in document order
    results,    \* the returned list of records
    parsed,     \* whether parse_history_xml has returned
    \* hdfs-site.xml
    site,           \* the stored document: its property elements in order
    siteReadable,   \* FALSE once a failed write has left the file truncated
    \* history of update_hdfs_site_property calls (SpecUpsert)
    ncalls,     \* number of calls made
    prevCall,   \* the call before the last: [name, value, before]
    lastCall,   \* the last call: [name, value, before]
    \* anode_agent_apply.main
    pc,             \* next step of main
    weights,        \* the local weight file: its node elements, or unparsable
    weightsReadable,
    site0,          \* the document when the run started
    published,      \* the artifact is at hdfs_dest
    written,        \* property names this run has written to hdfs-site.xml
    reconfigCalled, \* run_reconfig was invoked
    reconfigFailure,\* the outcome of run_reconfig when it failed, else "none"
    failedAt,       \* the step whose exception ended the run, else "none"
    exitStatus      \* "running", "success" (exit 0) or "failure" (uncaught exception)

computeVars == <<arith, entries, phase, node_C, node_P>>
parseVars == <<content, results, parsed>>
siteVars == <<site, siteReadable>>
callVars == <<ncalls, prevCall, lastCall>>
applyVars == <<pc, weights, weightsReadable, site0, published, written,
               reconfigCalled, reconfigFailure, failedAt, exitStatus>>
vars == <<computeVars, parseVars, siteVars, callVars, applyVars>>

---------------------------------------------------------------------------
\* Bounds of the model.
MaxRecords == 3         \* longest list of execution records
SigBits == 11           \* significand width of the rounded arithmetic (binary64 has 53);
                        \* wide enough to hold every integer of the modelled inputs exactly
MaxElements == 2        \* most taskAttempt/map elements in a history document
MaxProps == 2           \* most properties in hdfs-site.xml at the start
MaxCalls == 2           \* most update_hdfs_site_property calls in SpecUpsert
MaxWeightNodes == 2     \* most node elements in the weight file

Nodes == {"n1", "n2"}
StartTimes == {0}
FinishTimes == {0, 100, 200, 300}
ByteCounts == {0, 1}
FloatByteCounts == {1}

RECURSIVE SeqsUpTo(_, _)
SeqsUpTo(S, n) ==
    IF n = 0 THEN {<<>>}
    ELSE LET shorter == SeqsUpTo(S, n - 1)
         IN  shorter \cup {Append(s, x) : s \in {t \in shorter : Len(t) = n - 1}, x \in S}

Min(S) == CHOOSE x \in S : \A y \in S : x <= y

---------------------------------------------------------------------------
\* Numbers.  A Python float is modelled as a reduced fraction <<n, d>>, d > 0,
\* either exactly or rounded to SigBits significant bits after each operation
\* (round to nearest, ties to even, unbounded exponent).

RECURSIVE Gcd(_, _)
Gcd(a, b) == IF b = 0 THEN a ELSE Gcd(b, a % b)

Abs(x) == IF x < 0 THEN -x ELSE x

Reduce(n, d) ==
    LET g == Gcd(Abs(n), d) IN IF n = 0 THEN <<0, 1>> ELSE <<n \div g, d \div g>>

RECURSIVE Pow2(_)
Pow2(k) == IF k = 0 THEN 1 ELSE 2 * Pow2(k - 1)

SigTop == Pow2(SigBits)
SigLow == Pow2(SigBits - 1)

\* (n / d) * 2^e is the value; on return SigLow <= n/d < SigTop
RECURSIVE Scale(_, _, _)
Scale(n, d, e) ==
    IF n \div d >= SigTop THEN Scale(n, 2 * d, e + 1)
    ELSE IF n \div d < SigLow THEN Scale(2 * n, d, e - 1)
    ELSE <<n, d, e>>

RoundSig(x) ==
    IF x[1] = 0 THEN x
    ELSE LET s == Scale(x[1], x[2], 0)
             q == s[1] \div s[2]
             r == s[1] % s[2]
             m == IF 2 * r > s[2] \/ (2 * r = s[2] /\ q % 2 = 1) THEN q + 1 ELSE q
         IN  IF s[3] >= 0 THEN <<m * Pow2(s[3]), 1>> ELSE Reduce(m, Pow2(-s[3]))

Fl(x) == IF arith = "rounded" THEN RoundSig(x) ELSE x

Zero == <<0, 1>>
One == <<1, 1>>

QAdd(x, y) ==
    LET g == Gcd(x[2], y[2])
        l == (x[2] \div g) * y[2]
    IN  Reduce(x[1] * (l \div x[2]) + y[1] * (l \div y[2]), l)

QDiv(x, y) ==
    LET g1 == IF x[1] = 0 THEN y[1] ELSE Gcd(x[1], y[1])
        g2 == Gcd(x[2], y[2])
    IN  Reduce((x[1] \div g1) * (y[2] \div g2), (x[2] \div g2) * (y[1] \div g1))

FromInt(i) == Fl(<<i, 1>>)      \* float(i), and int / float
FAdd(x, y) == Fl(QAdd(x, y))    \* x + y
FDiv(x, y) == Fl(QDiv(x, y))    \* x / y
FPos(x) == x[1] > 0             \* x > 0

---------------------------------------------------------------------------
\* compute_ndt_and_Ci

\* a dict with its insertion order: keys in order, val the values beside them
EmptyDict == [keys |-> <<>>, val |-> <<>>]
Has(d, k) == \E i \in 1..Len(d.keys) : d.keys[i] = k
Index(d, k) == CHOOSE i \in 1..Len(d.keys) : d.keys[i] = k
Get(d, k, default) == IF Has(d, k) THEN d.val[Index(d, k)] ELSE default
Put(d, k, v) ==
    IF Has(d, k) THEN [d EXCEPT !.val[Index(d, k)] = v]
    ELSE [keys |-> Append(d.keys, k), val |-> Append(d.val, v)]
KeySet(d) == {d.keys[i] : i \in 1..Len(d.keys)}
AsMap(d) == [k \in KeySet(d) |-> d.val[Index(d, k)]]

\* Mutation of Accumulate: the duration test is  finish < start
AccumulateStrictTime(acc, e) ==
    IF e.hdfs_bytes <= 0 \/ e.finish < e.start THEN acc
    ELSE LET texec == FDiv(FromInt(e.finish - e.start), FromInt(1000))
             ndt == FDiv(texec, FromInt(e.hdfs_bytes))
         IN  [ndt_sum |-> Put(acc.ndt_sum, e.node, FAdd(Get(acc.ndt_sum, e.node, Zero), ndt)),
              ndt_count |-> Put(acc.ndt_count, e.node, Get(acc.ndt_count, e.node, 0) + 1)]

\* Mutation of Accumulate: ndt_sum[node] = ndt  instead of  +=
AccumulateOverwrite(acc, e) ==
    IF e.hdfs_bytes <= 0 \/ e.finish <= e.start THEN acc
    ELSE LET texec == FDiv(FromInt(e.finish - e.start), FromInt(1000))
             ndt == FDiv(texec, FromInt(e.hdfs_bytes))
         IN  [ndt_sum |-> Put(acc.ndt_sum, e.node, ndt),
              ndt_count |-> Put(acc.ndt_count, e.node, Get(acc.ndt_count, e.node, 0) + 1)]

\* the loop body, one record
Accumulate(acc, e) ==
    IF e.hdfs_bytes <= 0 \/ e.finish <= e.start THEN acc
    ELSE LET texec == FDiv(FromInt(e.finish - e.start), FromInt(1000))
             ndt == FDiv(texec, FromInt(e.hdfs_bytes))
         IN  [ndt_sum |-> Put(acc.ndt_sum, e.node, FAdd(Get(acc.ndt_sum, e.node, Zero), ndt)),
              ndt_count |-> Put(acc.ndt_count, e.node, Get(acc.ndt_count, e.node, 0) + 1)]

RECURSIVE AccumulateAll(_, _)
AccumulateAll(es, i) ==
    IF i = 0 THEN [ndt_sum |-> EmptyDict, ndt_count |-> EmptyDict]
    ELSE Accumulate(AccumulateAll(es, i - 1), es[i])

\* node_avg_ndt
AvgNdt(acc) ==
    [keys |-> acc.ndt_sum.keys,
     val |-> [i \in 1..Len(acc.ndt_sum.keys) |->
                FDiv(acc.ndt_sum.val[i], FromInt(Get(acc.ndt_count, acc.ndt_sum.keys[i], 0)))]]

\* Mutation of Capacity: the test is  avg_ndt < 0
CapacityWrongSign(avg) ==
    [keys |-> avg.keys,
     val |-> [i \in 1..Len(avg.keys) |->
                IF avg.val[i][1] < 0 THEN FDiv(One, avg.val[i]) ELSE Zero]]

\* Ci = 1 / avg(NDT)
Capacity(avg) ==
    [keys |-> avg.keys,
     val |-> [i \in 1..Len(avg.keys) |->
                IF FPos(avg.val[i]) THEN FDiv(One, avg.val[i]) ELSE Zero]]

\* sum(node_C.values()): left to right, from 0
RECURSIVE SumValues(_, _)
SumValues(vals, i) ==
    IF i = 0 THEN Zero ELSE FAdd(SumValues(vals, i - 1), vals[i])

\* Mutation of Normalize: Ci is divided by the number of nodes
NormalizeByCount(C) ==
    [keys |-> C.keys,
     val |-> [i \in 1..Len(C.keys) |-> FDiv(C.val[i], FromInt(Len(C.keys)))]]

\* Pi = Ci / sum(C), or equal weights
Normalize(C) ==
    LET totalC == SumValues(C.val, Len(C.val))
    IN  [keys |-> C.keys,
         val |-> [i \in 1..Len(C.keys) |->
                    IF FPos(totalC) THEN FDiv(C.val[i], totalC)
                    ELSE IF Len(C.keys) > 0 THEN FDiv(One, FromInt(Len(C.keys)))
                    ELSE Zero]]

compute_ndt_and_Ci(es) ==
    LET C == Capacity(AvgNdt(AccumulateAll(es, Len(es))))
    IN  [node_C |-> AsMap(C), node_P |-> AsMap(Normalize(C))]

NoMap == [k \in {} |-> Zero]

\* node_C, node_P = compute_ndt_and_Ci(entries)
Compute ==
    /\ phase = "input"
    /\ LET r == compute_ndt_and_Ci(entries)
       IN  node_C' = r.node_C /\ node_P' = r.node_P
    /\ phase' = "computed"
    /\ UNCHANGED <<arith, entries, parseVars, siteVars, callVars, applyVars>>

\* the same records in another order (one adjacent transposition), computed again
Reorder ==
    /\ phase \in {"computed", "reordered"}
    /\ \E i \in 1..(Len(entries) - 1) :
         /\ entries[i] # entries[i + 1]
         /\ entries' = [entries EXCEPT ![i] = entries[i + 1], ![i + 1] = entries[i]]
         /\ LET r == compute_ndt_and_Ci(entries')
            IN  node_C' = r.node_C /\ node_P' = r.node_P
    /\ phase' = "reordered"
    /\ UNCHANGED <<arith, parseVars, siteVars, callVars, applyVars>>

---------------------------------------------------------------------------
\* parse_history_xml

\* what findtext returns for a child: None (no such child), "" (child without
\* text), a text int() accepts, or any other text
Absent == [kind |-> "absent", n |-> 0, s |-> ""]
EmptyText == [kind |-> "empty", n |-> 0, s |-> ""]
IntText(i) == [kind |-> "int", n |-> i, s |-> ""]
WordText(w) == [kind |-> "word", n |-> 0, s |-> w]

Truthy(t) == t.kind \in {"int", "word"}
Or(x, y) == IF Truthy(x) THEN x ELSE y     \* Python's  x or y
CanInt(t) == t.kind = "int"                \* int(t) does not raise

\* the try body for a taskAttempt element
TaskAttemptFields(t) ==
    [start |-> Or(t.startTime, t.start),
     finish |-> Or(t.finishTime, t.finish),
     hdfs_bytes |-> Or(Or(t.hdfsBytesRead, t.hdfs_bytes_read), IntText(0)),
     tracker |-> Or(Or(t.trackerName, t.node), WordText("unknown"))]

\* the try body for a map element
MapFields(m) ==
    [start |-> Or(m.startTime, IntText(0)),
     finish |-> Or(m.finishTime, IntText(0)),
     hdfs_bytes |-> Or(m.hdfsBytesRead, IntText(0)),
     tracker |-> Or(m.trackerName, WordText("unknown"))]

Raises(f) == ~(CanInt(f.start) /\ CanInt(f.finish) /\ CanInt(f.hdfs_bytes))
RecordOf(f) ==
    [node |-> f.tracker.s, start |-> f.start.n, finish |-> f.finish.n,
     hdfs_bytes |-> f.hdfs_bytes.n]

\* one loop over the elements of a tag; an element that raises is skipped
RECURSIVE Pass(_, _, _)
Pass(doc, i, tag) ==
    IF i = 0 THEN <<>>
    ELSE LET f == IF tag = "taskAttempt" THEN TaskAttemptFields(doc[i])
                  ELSE MapFields(doc[i])
         IN  IF doc[i].tag # tag \/ Raises(f) THEN Pass(doc, i - 1, tag)
             ELSE Append(Pass(doc, i - 1, tag), RecordOf(f))

parse_history_xml(doc) ==
    LET primary == Pass(doc, Len(doc), "taskAttempt")
    IN  IF primary = <<>> THEN Pass(doc, Len(doc), "map") ELSE primary

\* the elements of the modelled documents: every field absent or present, under
\* its primary name or its alias (both at once for the start time only)
HistoryElements ==
    {e \in [tag : {"taskAttempt", "map"},
            startTime : {Absent, IntText(5), WordText("x")}, start : {Absent, IntText(3)},
            finishTime : {Absent, IntText(9)}, finish : {Absent, IntText(8)},
            hdfsBytesRead : {Absent, IntText(100)}, hdfs_bytes_read : {Absent, IntText(200)},
            trackerName : {Absent, WordText("n1")}, node : {Absent, WordText("n2")}] :
        /\ e.finishTime = Absent \/ e.finish = Absent
        /\ e.hdfsBytesRead = Absent \/ e.hdfs_bytes_read = Absent
        /\ e.trackerName = Absent \/ e.node = Absent}

\* results = parse_history_xml(content)
Parse ==
    /\ ~parsed
    /\ results' = parse_history_xml(content)
    /\ parsed' = TRUE
    /\ UNCHANGED <<content, computeVars, siteVars, callVars, applyVars>>

---------------------------------------------------------------------------
\* hdfs-site.xml and update_hdfs_site_property

\* A text is held as the sequence of its pieces; "" is <<>>.
\* In the file a child element is absent or holds character data.
NoChild == [exists |-> FALSE, data |-> <<>>]
Child(d) == [exists |-> TRUE, data |-> d]

\* In the parsed tree an element's text is None or a non-empty string.
None == [none |-> TRUE, s |-> <<>>]
Str(s) == [none |-> FALSE, s |-> s]
NoElement == [exists |-> FALSE, text |-> None]
Element(t) == [exists |-> TRUE, text |-> t]

\* ET.parse: an element without character data has text None
ParseChild(c) ==
    IF ~c.exists THEN NoElement
    ELSE IF c.data = <<>> THEN Element(None) ELSE Element(Str(c.data))

\* tree.write: text None and text "" are both written as an empty element
WriteChild(e) ==
    IF ~e.exists THEN NoChild
    ELSE IF e.text.none THEN Child(<<>>) ELSE Child(e.text.s)

ET_parse(file) ==
    [i \in 1..Len(file) |->
        [name |-> ParseChild(file[i].name), value |-> ParseChild(file[i].value)]]

tree_write(root) ==
    [i \in 1..Len(root) |->
        [name |-> WriteChild(root[i].name), value |-> WriteChild(root[i].value)]]

\* name is not None and name.text == prop_name
NameMatches(prop, prop_name) == prop.name.exists /\ prop.name.text = Str(prop_name)

\* Mutation of update_hdfs_site_property: the new property is inserted first
update_inserting_first(file, prop_name, prop_value) ==
    LET root == ET_parse(file)
        found == {i \in 1..Len(root) : NameMatches(root[i], prop_name)}
    IN  IF found # {}
        THEN tree_write([root EXCEPT ![Min(found)].value = Element(Str(prop_value))])
        ELSE tree_write(<<[name |-> Element(Str(prop_name)),
                           value |-> Element(Str(prop_value))]>> \o root)

\* the new file content when no call of the function raises
update_hdfs_site_property(file, prop_name, prop_value) ==
    LET root == ET_parse(file)
        found == {i \in 1..Len(root) : NameMatches(root[i], prop_name)}
    IN  IF found # {}
        THEN tree_write([root EXCEPT ![Min(found)].value = Element(Str(prop_value))])
        ELSE tree_write(Append(root, [name |-> Element(Str(prop_name)),
                                      value |-> Element(Str(prop_value))]))

WeightsFileProp == <<"dfs.anode.weights.file">>
InlineProp == <<"dfs.datanode.data.dir.weight">>

\* "ok"; ET.parse raises; tree.write raises before or after truncating the file
UpsertOutcomes == {"ok", "ParseError", "WriteError", "WriteErrorTruncated"}

\* one call of update_hdfs_site_property on the stored document
UpsertEffect(outcome, prop_name, prop_value) ==
    /\ ~siteReadable => outcome = "ParseError"
    /\ site' = CASE outcome = "ok" -> update_hdfs_site_property(site, prop_name, prop_value)
                 [] outcome = "WriteErrorTruncated" -> <<>>
                 [] OTHER -> site
    /\ siteReadable' = (siteReadable /\ outcome # "WriteErrorTruncated")

\* the properties of the start documents: with or without a name element, with
\* or without a value element
PropShapes ==
    [name : {NoChild, Child(WeightsFileProp), Child(InlineProp)},
     value : {NoChild, Child(<<"old">>)}]

CallNames == {<<>>, WeightsFileProp}
CallValues == {<<>>, <<"v1">>, <<"v2">>}

NoCall == [name |-> <<>>, value |-> <<>>, before |-> <<>>]

\* update_hdfs_site_property(hdfs_site_path, k, v) on a readable, writable file
UpsertCall ==
    /\ ncalls < MaxCalls
    /\ \E k \in CallNames, v \in CallValues :
         /\ UpsertEffect("ok", k, v)
         /\ lastCall' = [name |-> k, value |-> v, before |-> site]
    /\ prevCall' = lastCall
    /\ ncalls' = ncalls + 1
    /\ UNCHANGED <<computeVars, parseVars, applyVars>>

---------------------------------------------------------------------------
\* anode_agent_apply.main

hdfs_dest == <<"/user/hadoop/anode/weights/WordCount.xml">>

\* an attribute of a <node> element of the weight file: absent, or its text
NoAttr == [present |-> FALSE, s |-> <<>>]
Attr(s) == [present |-> TRUE, s |-> s]
AttrTruthy(a) == a.present /\ a.s # <<>>

\* ",".join of the name:weight pairs of the nodes that have both attributes
RECURSIVE InlineVal(_, _)
InlineVal(nodes, i) ==
    IF i = 0 THEN <<>>
    ELSE LET rest == InlineVal(nodes, i - 1)
             n == nodes[i]
         IN  IF ~(AttrTruthy(n.name) /\ AttrTruthy(n.weight)) THEN rest
             ELSE (IF rest = <<>> THEN <<>> ELSE rest \o <<",">>)
                  \o n.name.s \o <<":">> \o n.weight.s

\* subprocess.check_call: returns, raises CalledProcessError (non-zero exit
\* status), or raises OSError (the command could not be started)
CheckCallOutcomes == {"ok", "CalledProcessError", "OSError"}

Abort(step) ==
    /\ failedAt' = step
    /\ exitStatus' = "failure"
    /\ pc' = "exit"

\* Mutation of HdfsPut: a failed put is reported and the run goes on
HdfsPutContinuing ==
    /\ pc = "hdfs_put"
    /\ \E outcome \in CheckCallOutcomes :
         /\ published' = (outcome = "ok")
         /\ failedAt' = IF outcome = "ok" THEN failedAt ELSE "hdfs_put"
         /\ pc' = "update_weights_file"
         /\ UNCHANGED exitStatus
    /\ UNCHANGED <<weights, weightsReadable, site0, written, reconfigCalled,
                   reconfigFailure, siteVars, computeVars, parseVars, callVars>>

\* 1) hdfs_put(args.weights, args.hdfs_dest)
HdfsPut ==
    /\ pc = "hdfs_put"
    /\ \E outcome \in CheckCallOutcomes :
         IF outcome = "ok"
         THEN /\ published' = TRUE
              /\ pc' = "update_weights_file"
              /\ UNCHANGED <<failedAt, exitStatus>>
         ELSE /\ Abort("hdfs_put")
              /\ UNCHANGED published
    /\ UNCHANGED <<weights, weightsReadable, site0, written, reconfigCalled,
                   reconfigFailure, siteVars, computeVars, parseVars, callVars>>

\* 2) update_hdfs_site_property(args.hdfs_site, 'dfs.anode.weights.file', args.hdfs_dest)
UpdateWeightsFile ==
    /\ pc = "update_weights_file"
    /\ \E outcome \in UpsertOutcomes :
         /\ UpsertEffect(outcome, WeightsFileProp, hdfs_dest)
         /\ IF outcome = "ok"
            THEN /\ written' = written \cup {WeightsFileProp}
                 /\ pc' = "update_inline"
                 /\ UNCHANGED <<failedAt, exitStatus>>
            ELSE /\ Abort("update_weights_file")
                 /\ UNCHANGED written
    /\ UNCHANGED <<weights, weightsReadable, site0, published, reconfigCalled,
                   reconfigFailure, computeVars, parseVars, callVars>>

\* 3) read the weight xml, compose the pairs, update 'dfs.datanode.data.dir.weight'
UpdateInline ==
    /\ pc = "update_inline"
    /\ IF ~weightsReadable
       THEN /\ Abort("update_inline")       \* ET.parse(args.weights) raises
            /\ UNCHANGED <<written, siteVars>>
       ELSE \E outcome \in UpsertOutcomes :
              /\ UpsertEffect(outcome, InlineProp, InlineVal(weights, Len(weights)))
              /\ IF outcome = "ok"
                 THEN /\ written' = written \cup {InlineProp}
                      /\ pc' = "run_reconfig"
                      /\ UNCHANGED <<failedAt, exitStatus>>
                 ELSE /\ Abort("update_inline")
                      /\ UNCHANGED written
    /\ UNCHANGED <<weights, weightsReadable, site0, published, reconfigCalled,
                   reconfigFailure, computeVars, parseVars, callVars>>

\* 4) try: run_reconfig() except subprocess.CalledProcessError: print(...)
RunReconfig ==
    /\ pc = "run_reconfig"
    /\ reconfigCalled' = TRUE
    /\ \E outcome \in CheckCallOutcomes :
         /\ reconfigFailure' = IF outcome = "ok" THEN "none" ELSE outcome
         /\ IF outcome \in {"ok", "CalledProcessError"}
            THEN /\ exitStatus' = "success"
                 /\ pc' = "exit"
                 /\ UNCHANGED failedAt
            ELSE Abort("run_reconfig")
    /\ UNCHANGED <<weights, weightsReadable, site0, published, written,
                   siteVars, computeVars, parseVars, callVars>>

---------------------------------------------------------------------------
\* Initial states and specifications

IdleCompute ==
    /\ arith = "exact" /\ entries = <<>> /\ phase = "idle"
    /\ node_C = NoMap /\ node_P = NoMap
IdleParse == content = <<>> /\ results = <<>> /\ parsed = TRUE
IdleSite == site = <<>> /\ siteReadable = TRUE
IdleCalls == ncalls = 0 /\ prevCall = NoCall /\ lastCall = NoCall
IdleApply ==
    /\ pc = "idle" /\ weights = <<>> /\ weightsReadable = TRUE /\ site0 = <<>>
    /\ published = FALSE /\ written = {} /\ reconfigCalled = FALSE
    /\ reconfigFailure = "none" /\ failedAt = "none" /\ exitStatus = "running"

Records == [node : Nodes, start : StartTimes, finish : FinishTimes, hdfs_bytes : ByteCounts]
FloatRecords ==
    [node : Nodes, start : StartTimes, finish : FinishTimes, hdfs_bytes : FloatByteCounts]

InitCompute ==
    /\ arith = "exact"
    /\ entries \in SeqsUpTo(Records, MaxRecords)
    /\ phase = "input"
    /\ node_C = NoMap /\ node_P = NoMap
    /\ IdleParse /\ IdleSite /\ IdleCalls /\ IdleApply

InitComputeFloat ==
    /\ arith \in {"exact", "rounded"}
    /\ entries \in SeqsUpTo(FloatRecords, MaxRecords)
    /\ phase = "input"
    /\ node_C = NoMap /\ node_P = NoMap
    /\ IdleParse /\ IdleSite /\ IdleCalls /\ IdleApply

NextCompute == Compute \/ Reorder

SpecCompute == InitCompute /\ [][NextCompute]_vars
SpecComputeFloat == InitComputeFloat /\ [][NextCompute]_vars

InitParse ==
    /\ content \in SeqsUpTo(HistoryElements, MaxElements)
    /\ results = <<>>
    /\ parsed = FALSE
    /\ IdleCompute /\ IdleSite /\ IdleCalls /\ IdleApply

NextParse == Parse

SpecParse == InitParse /\ [][NextParse]_vars

InitUpsert ==
    /\ site \in SeqsUpTo(PropShapes, MaxProps)
    /\ siteReadable = TRUE
    /\ IdleCalls
    /\ IdleCompute /\ IdleParse /\ IdleApply

NextUpsert == UpsertCall

SpecUpsert == InitUpsert /\ [][NextUpsert]_vars

StartProps ==
    {[name |-> Child(WeightsFileProp), value |-> Child(<<"old">>)],
     [name |-> Child(InlineProp), value |-> Child(<<"old">>)],
     [name |-> Child(<<"dfs.replication">>), value |-> Child(<<"3">>)]}

WeightNodes ==
    {[name |-> Attr(<<"n1">>), weight |-> Attr(<<"0.666667">>)],
     [name |-> Attr(<<"n2">>), weight |-> Attr(<<"0.333333">>)],
     [name |-> NoAttr, weight |-> Attr(<<"1.0">>)],
     [name |-> Attr(<<"n1">>), weight |-> Attr(<<>>)]}

InitApply ==
    /\ pc = "hdfs_put"
    /\ site \in SeqsUpTo(StartProps, MaxProps)
    /\ siteReadable = TRUE
    /\ site0 = site
    /\ weights \in SeqsUpTo(WeightNodes, MaxWeightNodes)
    /\ weightsReadable \in BOOLEAN
    /\ published = FALSE /\ written = {} /\ reconfigCalled = FALSE
    /\ reconfigFailure = "none" /\ failedAt = "none" /\ exitStatus = "running"
    /\ IdleCalls /\ IdleCompute /\ IdleParse

NextApply == HdfsPut \/ UpdateWeightsFile \/ UpdateInline \/ RunReconfig

SpecApply == InitApply /\ [][NextApply]_vars

---------------------------------------------------------------------------
\* Properties of compute_ndt_and_Ci

Returned == phase \in {"computed", "reordered"}
Skipped(e) == e.hdfs_bytes <= 0 \/ e.finish <= e.start
RecordsOf(n) == {i \in 1..Len(entries) : entries[i].node = n}

\* exact sum of the values of a mapping
RECURSIVE SumOver(_, _)
SumOver(f, S) ==
    IF S = {} THEN Zero
    ELSE LET k == CHOOSE x \in S : TRUE IN QAdd(f[k], SumOver(f, S \ {k}))

WeightSum == SumOver(node_P, DOMAIN node_P)

\* |x - 1| <= 4 * 2^-SigBits
NearOne(x) == Abs(x[1] - x[2]) * SigTop <= 4 * x[2]

\* C6: whenever compute_ndt_and_Ci returns a non-empty weight mapping, the
\* weights of the returned nodes sum to 1: exactly in exact arithmetic, and
\* within four units of roundoff in rounded arithmetic.
C6_WeightsSumToOne ==
    (Returned /\ DOMAIN node_P # {}) =>
        IF arith = "exact" THEN WeightSum = One ELSE NearOne(WeightSum)

\* two nodes were returned with different weights, in rounded arithmetic
C6_Witness ==
    /\ Returned /\ arith = "rounded"
    /\ DOMAIN node_P = Nodes
    /\ node_P["n1"] # node_P["n2"]

\* C7: a node all of whose records are skipped (bytes <= 0 or finish <= start)
\* is in neither returned mapping; when every record has bytesTransferred = 0
\* both mappings are empty.
C7_SkippedNodesAbsent ==
    Returned =>
        /\ \A n \in Nodes :
             (\A i \in RecordsOf(n) : Skipped(entries[i])) =>
                 (n \notin DOMAIN node_C /\ n \notin DOMAIN node_P)
        /\ (\A i \in 1..Len(entries) : entries[i].hdfs_bytes = 0) =>
                 (DOMAIN node_C = {} /\ DOMAIN node_P = {})

\* n1 has records, all of them skipped, while n2 is returned
C7_Witness ==
    /\ Returned
    /\ RecordsOf("n1") # {}
    /\ \A i \in RecordsOf("n1") : Skipped(entries[i])
    /\ "n2" \in DOMAIN node_C
    /\ "n1" \notin DOMAIN node_C

\* x and y are equal (exact arithmetic), or differ by at most 2^-(SigBits-3)
\* of the larger (rounded arithmetic)
Close(x, y) ==
    IF arith = "exact" THEN x = y
    ELSE LET hi == IF x[1] * y[2] >= y[1] * x[2] THEN x ELSE y
             lo == IF x[1] * y[2] >= y[1] * x[2] THEN y ELSE x
             d == QAdd(hi, <<-lo[1], lo[2]>>)
             rel == IF d[1] = 0 THEN Zero ELSE QDiv(d, hi)
         IN  rel[1] * Pow2(SigBits - 3) <= rel[2]

\* C8 as stated: a permutation of the records returns the same nodes with the
\* same capacity and the same weight for each node.
C8_SameResult ==
    [][Returned => (node_C' = node_C /\ node_P' = node_P)]_vars

\* C8 amended: a permutation of the records returns the same set of nodes; the
\* capacity and the weight of each node are the same in exact arithmetic, and
\* in rounded arithmetic agree up to the rounding of the sums.
C8_SameUpToRounding ==
    [][Returned =>
          /\ DOMAIN node_C' = DOMAIN node_C
          /\ DOMAIN node_P' = DOMAIN node_P
          /\ \A n \in DOMAIN node_C : Close(node_C[n], node_C'[n])
          /\ \A n \in DOMAIN node_P : Close(node_P[n], node_P'[n])]_vars

\* the call was repeated on a permutation that interleaves a node's samples of
\* different duration, with two nodes returned
C8_Witness ==
    /\ phase = "reordered"
    /\ DOMAIN node_C = Nodes
    /\ \E i, j \in RecordsOf("n1") :
         /\ i < j
         /\ ~Skipped(entries[i]) /\ ~Skipped(entries[j])
         /\ entries[i].finish # entries[j].finish

\* C10: every returned node has at least one valid sample, a capacity > 0 and
\* a weight > 0; the total capacity is 0 only when no node is returned.
C10_ReturnedNodesPositive ==
    Returned =>
        /\ DOMAIN node_P = DOMAIN node_C
        /\ \A n \in DOMAIN node_C :
             /\ \E i \in RecordsOf(n) : ~Skipped(entries[i])
             /\ FPos(node_C[n])
             /\ FPos(node_P[n])
        /\ DOMAIN node_C # {} => FPos(SumOver(node_C, DOMAIN node_C))

\* both nodes returned, one of them having a skipped record beside a valid one
C10_Witness ==
    /\ Returned
    /\ DOMAIN node_C = Nodes
    /\ \E i, j \in RecordsOf("n1") : Skipped(entries[i]) /\ ~Skipped(entries[j])

---------------------------------------------------------------------------
\* Properties of parse_history_xml

\* the record the fallback pass would build if it read the aliases of the
\* primary shape, with 0 for a missing start, finish or bytes
AliasedMapFields(m) ==
    [start |-> Or(Or(m.startTime, m.start), IntText(0)),
     finish |-> Or(Or(m.finishTime, m.finish), IntText(0)),
     hdfs_bytes |-> Or(Or(m.hdfsBytesRead, m.hdfs_bytes_read), IntText(0)),
     tracker |-> Or(Or(m.trackerName, m.node), WordText("unknown"))]

RECURSIVE AliasedMapPass(_, _)
AliasedMapPass(doc, i) ==
    IF i = 0 THEN <<>>
    ELSE IF doc[i].tag # "map" \/ Raises(AliasedMapFields(doc[i]))
         THEN AliasedMapPass(doc, i - 1)
         ELSE Append(AliasedMapPass(doc, i - 1), RecordOf(AliasedMapFields(doc[i])))

\* C9: when the taskAttempt pass yields no record, each map element is read
\* with the aliases of the primary shape (startTime|start, finishTime|finish,
\* hdfsBytesRead|hdfs_bytes_read, trackerName|node), a missing start, finish or
\* bytes giving 0 in the record.
C9_FallbackReadsAliases ==
    (parsed /\ Pass(content, Len(content), "taskAttempt") = <<>>) =>
        results = AliasedMapPass(content, Len(content))

---------------------------------------------------------------------------
\* Properties of update_hdfs_site_property

\* the properties of a file whose name element holds exactly k
Named(file, k) == {i \in 1..Len(file) : file[i].name.exists /\ file[i].name.data = k}
NotNamed(file, k) == SelectSeq(file, LAMBDA p : ~(p.name.exists /\ p.name.data = k))
Max(a, b) == IF a >= b THEN a ELSE b
FileNames == {<<>>, WeightsFileProp, InlineProp}

\* C1: on a document with at most one property named k, upsert(k, v1) then
\* upsert(k, v2) leaves exactly one property named k, its value v2, and every
\* other original property unchanged in content and relative order.
C1_UpsertTwice ==
    (/\ ncalls >= 2
     /\ prevCall.name = lastCall.name
     /\ Cardinality(Named(prevCall.before, lastCall.name)) <= 1) =>
        /\ Cardinality(Named(site, lastCall.name)) = 1
        /\ \A i \in Named(site, lastCall.name) : site[i].value = Child(lastCall.value)
        /\ NotNamed(site, lastCall.name) = NotNamed(prevCall.before, lastCall.name)

\* C2: after a call upsert(k, v) at most one property is named k, whatever the
\* document held before; and no call raises the number of properties that
\* share a name above one.
C2_NeverDuplicates ==
    [][/\ Cardinality(Named(site', lastCall'.name)) <= 1
       /\ \A n \in FileNames :
            Cardinality(Named(site', n)) <= Max(Cardinality(Named(site, n)), 1)]_vars

\* C3: when no property of the document has a name equal to k, upsert(k, v)
\* appends the property (k, v) as the last entry; the document grows by one
\* property and the prior properties keep their content and order.
C3_AppendsWhenAbsent ==
    (/\ ncalls >= 1
     /\ \A i \in 1..Len(lastCall.before) :
          ~NameMatches(ET_parse(lastCall.before)[i], lastCall.name)) =>
        /\ Len(site) = Len(lastCall.before) + 1
        /\ SubSeq(site, 1, Len(lastCall.before)) = lastCall.before
        /\ site[Len(site)] = [name |-> Child(lastCall.name), value |-> Child(lastCall.value)]

\* a property was appended to a document that already held others
C3_Witness ==
    /\ ncalls >= 1
    /\ Len(lastCall.before) >= 2
    /\ Named(lastCall.before, lastCall.name) = {}
    /\ lastCall.name # <<>>
    /\ Len(site) = Len(lastCall.before) + 1

---------------------------------------------------------------------------
\* Properties of anode_agent_apply.main

InlineProps(file) == SelectSeq(file, LAMBDA p : p.name.exists /\ p.name.data = InlineProp)

\* C4: a failed publish, location upsert or inline upsert ends the run in
\* failure with no later step executed: after a failed publish the document is
\* unmodified, after a failed first upsert the inline property is never
\* written, and in all three cases run_reconfig is never invoked.
C4_FatalStepsAbort ==
    /\ failedAt = "hdfs_put" =>
         /\ exitStatus = "failure" /\ pc = "exit"
         /\ site = site0 /\ siteReadable /\ written = {}
         /\ ~reconfigCalled
    /\ failedAt = "update_weights_file" =>
         /\ exitStatus = "failure" /\ pc = "exit"
         /\ written = {}
         /\ siteReadable => InlineProps(site) = InlineProps(site0)
         /\ ~reconfigCalled
    /\ failedAt = "update_inline" =>
         /\ exitStatus = "failure" /\ pc = "exit"
         /\ written = {WeightsFileProp}
         /\ ~reconfigCalled

\* the inline upsert failed after the artifact was published and the location
\* property written
C4_Witness ==
    /\ failedAt = "update_inline"
    /\ published
    /\ WeightsFileProp \in written
    /\ weightsReadable

\* C5: any failure of the reconfiguration signal is non-fatal: the run ends
\* with success, the artifact published and both properties in place.
C5_ReconfigFailureNonFatal ==
    reconfigFailure # "none" =>
        /\ exitStatus = "success"
        /\ published
        /\ Named(site, WeightsFileProp) # {}
        /\ Named(site, InlineProp) # {}

=============================================================================
